---- MODULE Spec2Model ----
(***************************************************************************)
(* The autorenewer of letsencrypt/renewer.py: renew(cert, old_version)     *)
(* and the batch driver main(), over a directory of renewal configuration  *)
(* files and the lineage store (letsencrypt.storage.RenewableCert).        *)
(***************************************************************************)
EXTENDS Integers, Sequences, FiniteSets, TLC

\* Number of entries os.listdir yields for the renewal configs directory.
NumFiles == 2
MaxVersion == 4
\* Highest version a lineage holds before the run starts.
MaxInitVersion == 2

\* The orchestrator instances (one call of main each).
Runs == {1}

\* renew's "not renewed" result: Python's False, which is the integer 0.
False == 0

\* The artifact kinds of a version, each with its own current pointer.
Kinds == {"cert", "privkey", "chain"}

Files == 1..NumFiles

-----------------------------------------------------------------------------
(* Text: strings are sequences of one-character strings.                   *)

ConfSuffix == <<".", "c", "o", "n", "f">>
BackupSuffix == <<".", "c", "o", "n", "f", "~">>
BaseNames == <<"a", "b", "c", "d", "e">>

\* str.endswith
EndsWith(s, suffix) ==
    /\ Len(s) >= Len(suffix)
    /\ SubSeq(s, Len(s) - Len(suffix) + 1, Len(s)) = suffix

\* suffix in s
EndsWithAnywhere(s, suffix) ==
    \E k \in 1..Len(s) :
        /\ k + Len(suffix) - 1 <= Len(s)
        /\ SubSeq(s, k, k + Len(suffix) - 1) = suffix

IsConfNameAnywhere(name) == EndsWithAnywhere(name, ConfSuffix)

\* The test of line 147 on a directory entry.
IsConfName(name) == EndsWith(name, ConfSuffix)

DigitChars == {"0", "1", "2", "3", "4", "5", "6", "7", "8", "9"}

DigitValue(c) ==
    CASE c = "0" -> 0 [] c = "1" -> 1 [] c = "2" -> 2 [] c = "3" -> 3
      [] c = "4" -> 4 [] c = "5" -> 5 [] c = "6" -> 6 [] c = "7" -> 7
      [] c = "8" -> 8 [] c = "9" -> 9

RECURSIVE StripLeft(_)
StripLeft(s) ==
    IF Len(s) > 0 /\ Head(s) = " " THEN StripLeft(Tail(s)) ELSE s

RECURSIVE StripRight(_)
StripRight(s) ==
    IF Len(s) > 0 /\ s[Len(s)] = " "
    THEN StripRight(SubSeq(s, 1, Len(s) - 1)) ELSE s

RECURSIVE DigitsValue(_)
DigitsValue(s) ==
    IF Len(s) = 0 THEN 0
    ELSE 10 * DigitsValue(SubSeq(s, 1, Len(s) - 1)) + DigitValue(s[Len(s)])

\* Python's int(text): surrounding blanks are dropped, one sign is allowed,
\* and at least one decimal digit must follow; anything else is ValueError.
PyInt(text) ==
    LET t == StripRight(StripLeft(text))
        signed == Len(t) > 0 /\ t[1] \in {"+", "-"}
        digits == IF signed THEN Tail(t) ELSE t
    IN  IF Len(digits) > 0 /\ \A k \in 1..Len(digits) : digits[k] \in DigitChars
        THEN [ok |-> TRUE,
              val |-> IF signed /\ t[1] = "-" THEN 0 - DigitsValue(digits)
                      ELSE DigitsValue(digits)]
        ELSE [ok |-> FALSE, val |-> 0]

-----------------------------------------------------------------------------
(* Inputs: plugin registry and configuration files.                        *)

Dvsni == <<"d", "v", "s", "n", "i">>
Bogus == <<"b", "o", "g", "u", "s">>

\* PluginsRegistry.find_all(): the names that resolve to a plugin.
Plugins == {Dvsni}

AuthenticatorTexts == {Dvsni, Bogus}
RsaKeySizeTexts == {<<"2", "0", "4", "8">>, <<"b", "i", "g">>}
DvsniPortTexts == {<<" ", "4", "4", "3">>, <<"4", "4", "3", "x">>}

ParamKeys == {"authenticator", "rsa_key_size", "dvsni_port"}

ParamTexts(key) ==
    CASE key = "authenticator" -> AuthenticatorTexts
      [] key = "rsa_key_size" -> RsaKeySizeTexts
      [] key = "dvsni_port" -> DvsniPortTexts

\* A renewalparams section: any subset of the keys, all values text.
RenewalParams ==
    UNION {{p \in [K -> AuthenticatorTexts \cup RsaKeySizeTexts \cup DvsniPortTexts] :
               \A key \in K : p[key] \in ParamTexts(key)} : K \in SUBSET ParamKeys}

PathText == <<"/">>

\* The renewer's options, which a configuration file may set.
OptionKeys == {"renew_before_expiry", "deploy_before_expiry"}
OptionTexts == {"10 days", "30 days"}

\* A lineage's configuration file: the file references RenewableCert
\* requires, and optionally a renewalparams section or a renewer option.
ConfigFiles ==
    {[k \in Req |-> PathText] : Req \in {Kinds, Kinds \ {"privkey"}}}
    \cup
    {[k \in Req \cup {"renewalparams"} |->
         IF k = "renewalparams" THEN p ELSE PathText] :
         Req \in {Kinds, Kinds \ {"privkey"}}, p \in RenewalParams}
    \cup
    {[k \in Kinds \cup {"renew_before_expiry"} |->
         IF k = "renew_before_expiry" THEN v ELSE PathText] : v \in OptionTexts}

\* A file that sets nothing.
EmptyConfig == [k \in {} |-> PathText]

\* The renewer-wide configuration file: any of the options, or none.
RenewerFiles ==
    UNION {[K -> OptionTexts] : K \in SUBSET OptionKeys}

\* storage.config_with_defaults(): the process-wide defaults.
Defaults ==
    [renewer_enabled |-> "yes",
     renew_before_expiry |-> "30 days",
     deploy_before_expiry |-> "20 days"]

\* configobj's merge: every key of indict is set in self. (A section set on
\* both sides is merged key by key; the renewer-wide files here hold none.)
Merge(self, indict) ==
    [k \in DOMAIN self \cup DOMAIN indict |->
        IF k \in DOMAIN indict THEN indict[k] ELSE self[k]]

\* Lines 149-151: rc_config is the renewer-wide file with the lineage's
\* file merged into it.
RcConfig(renewer, lineagefile) == Merge(renewer, lineagefile)

-----------------------------------------------------------------------------
(* State.                                                                  *)

VARIABLES
    dir,          \* the listing of the renewal configs directory: entry names
    store,        \* per directory entry, the lineage on disk
    pc,           \* per run: the position in main / renew
    idx,          \* per run: index of the directory entry being handled
    cert,         \* per run: the RenewableCert of line 163: its configfile,
                  \*   and the lineage's file that was merged into it
    old_version,  \* per run: line 176
    config,       \* per run: renew's authenticator configuration
    new_chain,    \* per run: what obtain_certificate returned for the chain
    sans,         \* per run: the names renew read at lines 84-85
    result,       \* per run: what the last call of renew returned
    exc,          \* per run: the exception that left main, if any
    pre,          \* per run: the lineage as it was when renew was called
    log,          \* per run: the calls made for the current entry, in order
    skipped,      \* per run: the entries whose lineage could not be constructed
    visits,       \* per run: how often the loop has taken each entry
    store0,       \* the lineages as they were before the first run
    renewer_file  \* what cli_config.renewer_config_file holds

vars == <<dir, store, pc, idx, cert, old_version, config,
          new_chain, sans, result, exc, pre, log, skipped, visits, store0,
          renewer_file>>

\* The material of an initial version v, and the material issued for a
\* successor saved as version v.
\* The certificate carries the names it was issued for; the names of the
\* initial versions differ from one version to the next.
OriginalSans(v) ==
    {"example.org", IF v % 2 = 0 THEN "www.example.org" ELSE "mail.example.org"}
Names(k, names) == IF k = "cert" THEN names ELSE {}
Original(v) ==
    [k \in Kinds |-> [issued |-> 0, serial |-> v, sans |-> Names(k, OriginalSans(v))]]
Issued(n, names) ==
    [k \in Kinds |-> [issued |-> 1, serial |-> n, sans |-> Names(k, names)]]

\* Lineages as the issuance workflow and earlier runs can have left them:
\* versions 1..latest, every current pointer on an existing version; the
\* pointers agree, as update_all_links_to leaves them.
InitLineages ==
    {l \in
     {[latest |-> n,
       content |-> [v \in 1..n |-> Original(v)],
       current |-> cur] :
         n \in 1..MaxInitVersion, cur \in [Kinds -> 1..MaxInitVersion]} :
     /\ \A k \in Kinds : l.current[k] <= l.latest
     /\ \A k \in Kinds : l.current[k] = l.current["cert"]}

\* obtain_certificate's chain: None, or a chain.
ChainResults == {"None", "chain"}

NoCert == [configfile |-> EmptyConfig, lineagefile |-> EmptyConfig]
NoConfig == [rsa_key_size |-> 0, dvsni_port |-> 0]

Event(op, file, arg, ver) == [op |-> op, file |-> file, arg |-> arg, ver |-> ver]

Logged(r, op, arg, ver) ==
    log' = [log EXCEPT ![r] = Append(@, Event(op, idx[r], arg, ver))]

-----------------------------------------------------------------------------
(* The lineage store (letsencrypt.storage.RenewableCert).                  *)

\* RenewableCert(rc_config): ValueError unless the configuration names
\* every file reference.
ConstructionFails(configfile) == ~(Kinds \subseteq DOMAIN configfile)

latest_common_version(lineage) == lineage.latest

\* A version newer than the deployed one exists.
has_pending_deployment(lineage) ==
    \E k \in Kinds : lineage.current[k] < latest_common_version(lineage)

\* should_autodeploy() can only hold with a deployment pending; whether it
\* does then depends on the lineage's autodeploy setting and the clock.
should_autodeploy_values(lineage) ==
    IF has_pending_deployment(lineage) THEN BOOLEAN ELSE {FALSE}

\* should_autorenew() depends on the autorenew setting, the clock and the
\* certificate's expiry.
should_autorenew_values(lineage) == BOOLEAN

\* save_successor(prior_version, cert, key, chain): a new version after the
\* latest one; no current pointer moves.
save_successor(lineage, prior_version, material) ==
    [lineage EXCEPT
        !.latest = lineage.latest + 1,
        !.content = [v \in 1..(lineage.latest + 1) |->
                        IF v <= lineage.latest THEN lineage.content[v]
                        ELSE material]]

\* update_all_links_to(version): every current pointer on that version.
update_all_links_to(lineage, version) ==
    [lineage EXCEPT !.current = [k \in Kinds |-> version]]

-----------------------------------------------------------------------------
(* Initial states.                                                         *)

Suffixes == {ConfSuffix, BackupSuffix}

Listings ==
    {[i \in Files |-> <<BaseNames[i]>> \o suffix[i]] : suffix \in [Files -> Suffixes]}

\* A lineage right after its first issuance.
FreshLineage ==
    [latest |-> 1, content |-> [v \in 1..1 |-> Original(v)],
     current |-> [k \in Kinds |-> 1]]

\* The runs in runs are about to start on one of the listings, with one of
\* the renewer-wide files.
InitWith(runs, listings, renewerfiles) ==
    /\ dir \in listings
    /\ renewer_file \in renewerfiles
    /\ store \in [Files -> InitLineages]
    /\ \A i \in Files : ~IsConfName(dir[i]) => store[i] = FreshLineage
    /\ pc = [r \in runs |-> "start"]
    /\ idx = [r \in runs |-> 0]
    /\ cert = [r \in runs |-> NoCert]
    /\ old_version = [r \in runs |-> 0]
    /\ config = [r \in runs |-> NoConfig]
    /\ new_chain = [r \in runs |-> "None"]
    /\ sans = [r \in runs |-> {}]
    /\ result = [r \in runs |-> False]
    /\ exc = [r \in runs |-> "none"]
    /\ pre = [r \in runs |-> FreshLineage]
    /\ log = [r \in runs |-> <<>>]
    /\ skipped = [r \in runs |-> {}]
    /\ visits = [r \in runs |-> [i \in Files |-> 0]]
    /\ store0 = store

\* One run over any listing; the renewer-wide file sets nothing.
Init == InitWith(Runs, Listings, {EmptyConfig})

\* The listings whose last entry alone is a lineage's configuration file.
SingleListings ==
    {l \in Listings : \A i \in Files : IsConfName(l[i]) <=> i = NumFiles}

\* One run over one lineage, with any renewer-wide file.
InitConfig == InitWith(Runs, SingleListings, RenewerFiles)

\* The first of a sequence of runs over one lineage.
InitRuns == InitWith(Runs, SingleListings, {EmptyConfig})

\* Two invocations of main at the same time, over one lineage.
Overlapping == {1, 2}
InitOverlap == InitWith(Overlapping, SingleListings, {EmptyConfig})

-----------------------------------------------------------------------------
(* main(), lines 122-184.                                                  *)

\* Lines 130-145: set-up, then the directory is listed.
Start(r) ==
    /\ pc[r] = "start"
    /\ pc' = [pc EXCEPT ![r] = "loop"]
    /\ UNCHANGED <<renewer_file, store0, skipped, visits, dir, store, idx, cert,
                   old_version, config, new_chain, sans, result, exc, pre, log>>

\* Lines 145-148: the next entry; an entry without the suffix is passed over.
\* cert and old_version are assigned (lines 163, 176) before any use and
\* renew's frame is gone, so what the previous entry left in them is dropped
\* here, with its log.
NextEntry(r) ==
    /\ pc[r] = "loop"
    /\ idx[r] < Len(dir)
    /\ idx' = [idx EXCEPT ![r] = @ + 1]
    /\ log' = [log EXCEPT ![r] = <<Event("processing", idx[r] + 1, 0, 0)>>]
    /\ pc' = [pc EXCEPT ![r] =
                IF IsConfName(dir[idx[r] + 1]) THEN "construct" ELSE "loop"]
    /\ cert' = [cert EXCEPT ![r] = NoCert]
    /\ config' = [config EXCEPT ![r] = NoConfig]
    /\ new_chain' = [new_chain EXCEPT ![r] = "None"]
    /\ sans' = [sans EXCEPT ![r] = {}]
    /\ result' = [result EXCEPT ![r] = False]
    /\ pre' = [pre EXCEPT ![r] = FreshLineage]
    /\ old_version' = [old_version EXCEPT ![r] = 0]
    /\ visits' = [visits EXCEPT ![r][idx[r] + 1] = @ + 1]
    /\ UNCHANGED <<renewer_file, store0, skipped, dir, store, exc>>

\* Line 145, listing exhausted: main returns.
Finish(r) ==
    /\ pc[r] = "loop"
    /\ idx[r] = Len(dir)
    /\ pc' = [pc EXCEPT ![r] = "done"]
    /\ UNCHANGED <<renewer_file, store0, skipped, visits, dir, store, idx, cert,
                   old_version, config, new_chain, sans, result, exc, pre, log>>

AfterValueErrorUncaught == "raised"

\* Where main goes when RenewableCert raises ValueError (lines 164-171).
AfterValueError == "loop"

\* Lines 149-171: the configuration is read and the lineage constructed.
Construct(r) ==
    /\ pc[r] = "construct"
    /\ \E lineagefile \in ConfigFiles :
          LET configfile == RcConfig(renewer_file, lineagefile)
          IN
          IF ConstructionFails(configfile)
          THEN /\ Logged(r, "construction_failed", 0, 0)
               /\ skipped' = [skipped EXCEPT ![r] = @ \cup {idx[r]}]
               /\ pc' = [pc EXCEPT ![r] = AfterValueError]
               /\ exc' = [exc EXCEPT ![r] =
                            IF AfterValueError = "raised" THEN "ValueError" ELSE @]
               /\ UNCHANGED cert
          ELSE /\ cert' = [cert EXCEPT ![r] = [configfile |-> configfile,
                                                lineagefile |-> lineagefile]]
               /\ pc' = [pc EXCEPT ![r] = "autorenew"]
               /\ UNCHANGED <<log, exc, skipped>>
    /\ UNCHANGED <<renewer_file, store0, visits, dir, store, idx, old_version, config,
                   new_chain, sans, result, pre>>

\* Line 172. The configuration is read by renew only: it is kept while
\* renew can still be called for this entry.
ShouldAutorenew(r) ==
    /\ pc[r] = "autorenew"
    /\ \E due \in should_autorenew_values(store[idx[r]]) :
          /\ Logged(r, "should_autorenew", IF due THEN 1 ELSE 0,
                    latest_common_version(store[idx[r]]))
          /\ pc' = [pc EXCEPT ![r] = IF due THEN "call_renew" ELSE "autodeploy"]
          /\ cert' = [cert EXCEPT ![r] = IF due THEN @ ELSE NoCert]
    /\ UNCHANGED <<renewer_file, store0, skipped, visits, dir, store, idx, old_version,
                   config, new_chain, sans, result, exc, pre>>

BaseVersionDeployed(r) == store[idx[r]].current["cert"]

\* Line 176: the base of the renewal is the latest version, deployed or not.
BaseVersion(r) == latest_common_version(store[idx[r]])

\* Lines 176-177: the base version is the latest one; renew is entered.
CallRenew(r) ==
    /\ pc[r] = "call_renew"
    /\ old_version' = [old_version EXCEPT ![r] = BaseVersion(r)]
    /\ pre' = [pre EXCEPT ![r] = store[idx[r]]]
    /\ Logged(r, "renew", BaseVersion(r), 0)
    /\ pc' = [pc EXCEPT ![r] = "renew_params"]
    /\ UNCHANGED <<renewer_file, store0, skipped, visits, dir, store, idx, cert, config,
                   new_chain, sans, result, exc>>

-----------------------------------------------------------------------------
(* renew(cert, old_version), lines 39-98.                                  *)

LogAll(r, events) == log' = [log EXCEPT ![r] = @ \o events]

\* renew returns value to line 177.
Return(r, value) ==
    /\ result' = [result EXCEPT ![r] = value]
    /\ pc' = [pc EXCEPT ![r] = "notify"]

NotRenewableParamsOnly(configfile) == "renewalparams" \notin DOMAIN configfile

\* Lines 56-62: no renewalparams, or no authenticator in it.
NotRenewable(configfile) ==
    \/ "renewalparams" \notin DOMAIN configfile
    \/ "authenticator" \notin DOMAIN configfile["renewalparams"]

RenewParams(r) ==
    /\ pc[r] = "renew_params"
    /\ IF NotRenewable(cert[r].configfile)
       THEN /\ Return(r, False)
            /\ Logged(r, "return", False, 0)
       ELSE /\ pc' = [pc EXCEPT ![r] = "renew_config"]
            /\ UNCHANGED <<result, log>>
    /\ UNCHANGED <<renewer_file, store0, skipped, visits, dir, store, idx, cert,
                   old_version, config, new_chain, sans, exc, pre>>

\* Lines 65-69: config.rsa_key_size and config.dvsni_port are read from the
\* namespace (AttributeError when absent) and passed through int()
\* (ValueError when not a number), in that order.
Coerce(renewalparams) ==
    LET has(key) == key \in DOMAIN renewalparams
        int(key) == PyInt(renewalparams[key])
        fault == CASE ~has("rsa_key_size") -> "AttributeError"
                   [] ~int("rsa_key_size").ok -> "ValueError"
                   [] ~has("dvsni_port") -> "AttributeError"
                   [] ~int("dvsni_port").ok -> "ValueError"
                   [] OTHER -> "none"
    IN  [exc |-> fault,
         config |-> IF fault = "none"
                    THEN [rsa_key_size |-> int("rsa_key_size").val,
                          dvsni_port |-> int("dvsni_port").val]
                    ELSE NoConfig]

\* Lines 64-69: the registry is read, the configuration built. An exception
\* here is caught neither in renew nor in main.
RenewConfig(r) ==
    /\ pc[r] = "renew_config"
    /\ Logged(r, "find_all", 0, 0)
    /\ LET c == Coerce(cert[r].configfile["renewalparams"])
       IN  IF c.exc = "none"
           THEN /\ config' = [config EXCEPT ![r] = c.config]
                /\ pc' = [pc EXCEPT ![r] = "renew_lookup"]
                /\ UNCHANGED exc
           ELSE /\ exc' = [exc EXCEPT ![r] = c.exc]
                /\ pc' = [pc EXCEPT ![r] = "raised"]
                /\ UNCHANGED config
    /\ UNCHANGED <<renewer_file, store0, skipped, visits, dir, store, idx, cert,
                   old_version, new_chain, sans, result, pre>>

\* Line 71: plugins[renewalparams["authenticator"]] without KeyError.
Resolves(renewalparams) ==
    /\ "authenticator" \in DOMAIN renewalparams
    /\ renewalparams["authenticator"] \in Plugins

\* Lines 70-75: the authenticator is looked up and initialised.
RenewLookup(r) ==
    /\ pc[r] = "renew_lookup"
    /\ IF Resolves(cert[r].configfile["renewalparams"])
       THEN /\ Logged(r, "init", 0, 0)
            /\ pc' = [pc EXCEPT ![r] = "renew_prepare"]
            /\ UNCHANGED result
       ELSE /\ Return(r, False)
            /\ Logged(r, "return", False, 0)
    /\ UNCHANGED <<renewer_file, store0, skipped, visits, dir, store, idx, cert,
                   old_version, config, new_chain, sans, exc, pre>>

\* Line 77: prepare() returns or raises; nothing catches what it raises.
RenewPrepare(r) ==
    /\ pc[r] = "renew_prepare"
    /\ \E prepared \in BOOLEAN :
          /\ Logged(r, "prepare", IF prepared THEN 1 ELSE 0, 0)
          /\ IF prepared
             THEN /\ pc' = [pc EXCEPT ![r] = "renew_obtain"]
                  /\ UNCHANGED exc
             ELSE /\ pc' = [pc EXCEPT ![r] = "raised"]
                  /\ exc' = [exc EXCEPT ![r] = "PluginError"]
    /\ UNCHANGED <<renewer_file, store0, skipped, visits, dir, store, idx, cert,
                   old_version, config, new_chain, sans, result, pre>>

\* crypto_util.get_sans_from_cert: the names in a certificate.
get_sans_from_cert(certificate) == certificate.sans

RenewSansDeployed(lineage, version) ==
    get_sans_from_cert(lineage.content[lineage.current["cert"]]["cert"])

\* Lines 84-85: the names are read from cert.version("cert", old_version).
RenewSans(lineage, version) ==
    get_sans_from_cert(lineage.content[version]["cert"])

\* Lines 78-86: account and client, the names of the base version's
\* certificate, and the issuance.
RenewObtain(r) ==
    /\ pc[r] = "renew_obtain"
    /\ sans' = [sans EXCEPT ![r] = RenewSans(store[idx[r]], old_version[r])]
    /\ \E chain \in ChainResults :
          /\ new_chain' = [new_chain EXCEPT ![r] = chain]
          /\ LogAll(r, <<Event("determine_account", idx[r], 0, 0),
                         Event("obtain_certificate", idx[r],
                               IF chain = "None" THEN 0 ELSE 1, old_version[r])>>)
    /\ pc' = [pc EXCEPT ![r] = "renew_save"]
    /\ UNCHANGED <<renewer_file, store0, skipped, visits, dir, store, idx, cert,
                   old_version, config, result, exc, pre>>

SavesAlways(chain) == TRUE

\* Line 87.
SavesSuccessor(chain) == chain # "None"

RenewStoreInPlace(lineage, prior_version, material) ==
    [lineage EXCEPT !.content[prior_version] = material]

RenewStoreAtBase(lineage, prior_version, material) ==
    [lineage EXCEPT
        !.latest = prior_version + 1,
        !.content = [v \in 1..(prior_version + 1) |->
                        IF v <= prior_version THEN lineage.content[v] ELSE material]]

RenewStoreAndDeploy(lineage, prior_version, material) ==
    update_all_links_to(save_successor(lineage, prior_version, material),
                        lineage.latest + 1)

\* Lines 93-94: what renew does to the lineage on success.
RenewStore(lineage, prior_version, material) ==
    save_successor(lineage, prior_version, material)

\* Lines 87-98.
RenewSave(r) ==
    /\ pc[r] = "renew_save"
    /\ IF SavesSuccessor(new_chain[r])
       THEN LET target == store[idx[r]].latest + 1
            IN  /\ store' = [store EXCEPT ![idx[r]] =
                                RenewStore(@, old_version[r],
                                           Issued(target, sans[r]))]
                /\ Return(r, target)
                /\ LogAll(r, <<Event("save_successor", idx[r], old_version[r], target),
                               Event("return", idx[r], target, 0)>>)
       ELSE /\ Return(r, False)
            /\ Logged(r, "return", False, 0)
            /\ UNCHANGED store
    /\ UNCHANGED <<renewer_file, store0, skipped, visits, dir, idx, cert, old_version,
                   config, new_chain, sans, exc, pre>>

-----------------------------------------------------------------------------
(* main(), lines 178-184.                                                  *)

\* Line 178: the notification follows the call of renew, whatever it returned.
Notify(r) ==
    /\ pc[r] = "notify"
    /\ Logged(r, "notify_renewed", 0, 0)
    /\ pc' = [pc EXCEPT ![r] = "autodeploy"]
    /\ cert' = [cert EXCEPT ![r] = NoCert]
    /\ UNCHANGED <<renewer_file, store0, skipped, visits, dir, store, idx, old_version,
                   config, new_chain, sans, result, exc, pre>>

\* Line 180.
ShouldAutodeploy(r) ==
    /\ pc[r] = "autodeploy"
    /\ \E deploy \in should_autodeploy_values(store[idx[r]]) :
          /\ Logged(r, "should_autodeploy", IF deploy THEN 1 ELSE 0,
                    latest_common_version(store[idx[r]]))
          /\ pc' = [pc EXCEPT ![r] = IF deploy THEN "deploy" ELSE "loop"]
    /\ UNCHANGED <<renewer_file, store0, skipped, visits, dir, store, idx, cert,
                   old_version, config, new_chain, sans, result, exc, pre>>

DeployTargetStale(r) == old_version[r]

DeployTargetNext(r) == latest_common_version(store[idx[r]]) + 1

\* Line 181: the version deployed is the latest one at that moment.
DeployTarget(r) == latest_common_version(store[idx[r]])

DeployStoreByCopy(lineage, version) ==
    [lineage EXCEPT
        !.content = [v \in DOMAIN lineage.content |->
                        IF \E k \in Kinds : lineage.current[k] = v
                        THEN lineage.content[version] ELSE lineage.content[v]]]

DeployStoreCertOnly(lineage, version) ==
    [lineage EXCEPT !.current["cert"] = version]

\* Line 181: what the deployment does to the lineage.
DeployStore(lineage, version) == update_all_links_to(lineage, version)

\* Lines 181-183.
Deploy(r) ==
    /\ pc[r] = "deploy"
    /\ store' = [store EXCEPT ![idx[r]] = DeployStore(@, DeployTarget(r))]
    /\ LogAll(r, <<Event("update_all_links_to", idx[r], DeployTarget(r), 0),
                   Event("notify_deployed", idx[r], 0, 0)>>)
    /\ pc' = [pc EXCEPT ![r] = "loop"]
    /\ UNCHANGED <<renewer_file, store0, skipped, visits, dir, idx, cert, old_version,
                   config, new_chain, sans, result, exc, pre>>

-----------------------------------------------------------------------------

Next ==
    \E r \in DOMAIN pc :
        \/ Start(r)
        \/ NextEntry(r)
        \/ Finish(r)
        \/ Construct(r)
        \/ ShouldAutorenew(r)
        \/ CallRenew(r)
        \/ RenewParams(r)
        \/ RenewConfig(r)
        \/ RenewLookup(r)
        \/ RenewPrepare(r)
        \/ RenewObtain(r)
        \/ RenewSave(r)
        \/ Notify(r)
        \/ ShouldAutodeploy(r)
        \/ Deploy(r)

Spec == Init /\ [][Next]_vars

SpecConfig == InitConfig /\ [][Next]_vars

\* main is invoked again once the previous invocation has ended, normally
\* or with an exception.
Restart(r) ==
    /\ pc[r] \in {"done", "raised"}
    /\ \A i \in Files : store[i].latest < MaxVersion
    /\ pc' = [pc EXCEPT ![r] = "start"]
    /\ idx' = [idx EXCEPT ![r] = 0]
    /\ cert' = [cert EXCEPT ![r] = NoCert]
    /\ old_version' = [old_version EXCEPT ![r] = 0]
    /\ config' = [config EXCEPT ![r] = NoConfig]
    /\ new_chain' = [new_chain EXCEPT ![r] = "None"]
    /\ sans' = [sans EXCEPT ![r] = {}]
    /\ result' = [result EXCEPT ![r] = False]
    /\ exc' = [exc EXCEPT ![r] = "none"]
    /\ pre' = [pre EXCEPT ![r] = FreshLineage]
    /\ log' = [log EXCEPT ![r] = <<>>]
    /\ skipped' = [skipped EXCEPT ![r] = {}]
    /\ visits' = [visits EXCEPT ![r] = [i \in Files |-> 0]]
    /\ UNCHANGED <<renewer_file, store0, dir, store>>

NextRuns ==
    \/ Next
    \/ \E r \in DOMAIN pc : Restart(r)

\* Any sequence of batch runs, one after the other.
SpecRuns == InitRuns /\ [][NextRuns]_vars

\* Two batch runs that take their steps in any order.
SpecOverlap == InitOverlap /\ [][Next]_vars

-----------------------------------------------------------------------------
(* Properties.  What a property says about the configuration, the entry   *)
(* names and the log is stated here, apart from the operators the actions *)
(* use.                                                                    *)

Positions(r, op) == {k \in 1..Len(log[r]) : log[r][k].op = op}

Has(r, op) == Positions(r, op) # {}

Count(r, op) == Cardinality(Positions(r, op))

\* The current entry's lineage has a configuration that renew has been, or
\* is being, called with.
InRenew(r) == Has(r, "renew") /\ cert[r] # NoCert

Params(r) == cert[r].configfile["renewalparams"]

HasParams(r) == "renewalparams" \in DOMAIN cert[r].configfile

NamesAuthenticator(r) == HasParams(r) /\ "authenticator" \in DOMAIN Params(r)

\* The text holds a character no number is written with.
NotANumber(text) ==
    \E k \in 1..Len(text) :
        text[k] \notin {"0", "1", "2", "3", "4", "5", "6", "7", "8", "9", " ", "+", "-"}

\* The last five characters of the name are ".conf".
ConfEntry(i) ==
    LET n == Len(dir[i])
    IN  /\ n >= 5
        /\ <<dir[i][n - 4], dir[i][n - 3], dir[i][n - 2], dir[i][n - 1], dir[i][n]>>
             = <<".", "c", "o", "n", "f">>

SameVersions(a, b) ==
    /\ a.latest = b.latest
    /\ \A v \in 1..b.latest : a.content[v] = b.content[v]

\* C1: in a batch run, a due lineage whose renewalparams names an
\* authenticator (a registered one) and holds both numeric fields, one of
\* them not a number, is skipped: no version is created and no exception
\* ends the run, so that the later entries are still processed.
C1_BadNumberIsContained ==
    \A r \in Runs :
        (/\ InRenew(r)
         /\ NamesAuthenticator(r)
         /\ Params(r)["authenticator"] = Dvsni
         /\ {"rsa_key_size", "dvsni_port"} \subseteq DOMAIN Params(r)
         /\ \E key \in {"rsa_key_size", "dvsni_port"} : NotANumber(Params(r)[key]))
        => /\ pc[r] # "raised"
           /\ SameVersions(store[idx[r]], pre[r])

\* C2: in a batch run, when prepare() fails for a due lineage the attempt
\* ends with a negative result, no successor is created and the run goes
\* on with the later entries.
C2_PrepareFailureIsContained ==
    \A r \in Runs :
        (\E k \in Positions(r, "prepare") : log[r][k].arg = 0)
        => /\ pc[r] # "raised"
           /\ SameVersions(store[idx[r]], pre[r])

\* C3: for a lineage whose should_autorenew() is true, the renewal
\* notification is emitted if and only if renew returned a new version
\* number.
C3_NotifiedIffRenewed ==
    \A r \in Runs :
        LET renewed == \E k \in Positions(r, "return") : log[r][k].arg # False
        IN  /\ Has(r, "notify_renewed") => renewed
            /\ (renewed /\ pc[r] \in {"autodeploy", "deploy", "loop", "done"})
                  => Has(r, "notify_renewed")

\* C4: for a lineage whose renewalparams names an authenticator that is not
\* in the registry, whatever its other fields, renew returns False, raises
\* nothing, initialises no authenticator, does not call the issuance client
\* and creates no version.
C4_UnknownAuthenticatorReturnsFalse ==
    \A r \in Runs :
        (/\ InRenew(r)
         /\ NamesAuthenticator(r)
         /\ Params(r)["authenticator"] # Dvsni)
        => /\ pc[r] # "raised"
           /\ Has(r, "return") => result[r] = False
           /\ ~Has(r, "init")
           /\ ~Has(r, "obtain_certificate")
           /\ ~Has(r, "save_successor")
           /\ SameVersions(store[idx[r]], pre[r])

\* C5: for a lineage with no renewalparams, or with no authenticator in it,
\* renew returns False: the registry, the authenticator, the issuance
\* client and save_successor are not invoked, and the lineage's versions
\* and current pointers are as before the call.
C5_NotRenewableReturnsFalse ==
    \A r \in Runs :
        (InRenew(r) /\ ~NamesAuthenticator(r))
        => /\ pc[r] \in {"renew_params", "notify"}
           /\ pc[r] = "notify" => (Has(r, "return") /\ result[r] = False)
           /\ \A op \in {"find_all", "init", "prepare", "determine_account",
                         "obtain_certificate", "save_successor"} : ~Has(r, op)
           /\ store[idx[r]] = pre[r]

C5_Witness ==
    \E r \in Runs :
        /\ InRenew(r)
        /\ HasParams(r)
        /\ ~NamesAuthenticator(r)
        /\ pc[r] = "notify"
        /\ result[r] = False

\* C6: an entry whose lineage cannot be constructed is skipped for the run:
\* nothing is evaluated, renewed, deployed or notified for it, its stored
\* state is unchanged, and the loop goes on from it.
C6_MalformedIsSkipped ==
    \A r \in Runs : \A i \in skipped[r] :
        /\ store[i] = store0[i]
        /\ idx[r] >= i
        /\ idx[r] = i =>
              /\ pc[r] \in {"loop", "done"}
              /\ log[r] = <<Event("processing", i, 0, 0),
                            Event("construction_failed", i, 0, 0)>>
        /\ pc[r] = "done" => idx[r] = Len(dir)

C6_Witness ==
    \E r \in Runs : \E i \in skipped[r] :
        /\ idx[r] > i
        /\ Has(r, "save_successor")
        /\ Has(r, "update_all_links_to")
        /\ store[idx[r]].latest = store0[idx[r]].latest + 1
        /\ \A k \in Kinds : store[idx[r]].current[k] = store[idx[r]].latest

\* C7: after a successful renew the lineage's latest version is one more
\* than before the call, and every version that existed before the call is
\* still there with the same certificate, key and chain.
C7_SuccessAddsOneVersion ==
    \A r \in Runs :
        (Has(r, "return") /\ result[r] # False)
        => /\ store[idx[r]].latest = pre[r].latest + 1
           /\ result[r] = store[idx[r]].latest
           /\ \A v \in 1..pre[r].latest :
                 store[idx[r]].content[v] = pre[r].content[v]

C7_Witness ==
    \E r \in Runs :
        /\ Has(r, "return")
        /\ result[r] # False
        /\ pre[r].latest > 1
        /\ pc[r] = "notify"

\* C8: when obtain_certificate returns no chain, renew returns False,
\* save_successor is not called, and the lineage's versions and current
\* pointers are as before the call.
C8_NoChainNoSuccessor ==
    \A r \in Runs :
        (\E k \in Positions(r, "obtain_certificate") : log[r][k].arg = 0)
        => /\ ~Has(r, "save_successor")
           /\ SameVersions(store[idx[r]], pre[r])
           /\ pc[r] # "renew_save" => (Has(r, "return") /\ result[r] = False)
           /\ pc[r] \in {"renew_save", "notify", "autodeploy"} => store[idx[r]] = pre[r]

C8_Witness ==
    \E r \in Runs :
        /\ \E k \in Positions(r, "obtain_certificate") : log[r][k].arg = 0
        /\ pc[r] = "notify"
        /\ result[r] = False

\* C9: for each lineage of a run, should_autorenew() and then
\* should_autodeploy() are evaluated at most once each, in that order, and
\* a version N+1 created by the renewal is the latest version at the
\* deployment check and the version a deployment in the same run points
\* the current pointers at.
C9_DeploySeesRenewal ==
    \A r \in Runs :
        /\ \A i \in Files : visits[r][i] <= 1
        /\ Count(r, "should_autorenew") <= 1
        /\ Count(r, "should_autodeploy") <= 1
        /\ \A d \in Positions(r, "should_autodeploy") :
              \E a \in Positions(r, "should_autorenew") : a < d
        /\ \A s \in Positions(r, "save_successor") :
              /\ \A d \in Positions(r, "should_autodeploy") :
                    d > s /\ log[r][d].ver = log[r][s].ver
              /\ \A u \in Positions(r, "update_all_links_to") :
                    /\ u > s
                    /\ log[r][u].arg = log[r][s].ver
                    /\ pc[r] = "loop" =>
                          \A k \in Kinds : store[idx[r]].current[k] = log[r][s].ver

C9_Witness ==
    \E r \in Runs :
        /\ Has(r, "save_successor")
        /\ Has(r, "update_all_links_to")
        /\ pc[r] = "loop"

\* C10: in one run each entry is taken once; a .conf entry gets at most one
\* call of renew, hence at most one new version, and at most one advance of
\* the current pointers; an entry whose name does not end in ".conf" gets
\* no renewal, no deployment and no notification.
C10_AtMostOncePerEntry ==
    \A r \in Runs :
        /\ \A i \in Files : visits[r][i] <= 1
        /\ Count(r, "renew") <= 1
        /\ Count(r, "save_successor") <= 1
        /\ Count(r, "update_all_links_to") <= 1
        /\ \A i \in Files :
              /\ store[i].latest <= store0[i].latest + 1
              /\ ~ConfEntry(i) => store[i] = store0[i]
        /\ (idx[r] > 0 /\ ~ConfEntry(idx[r])) =>
              log[r] = <<Event("processing", idx[r], 0, 0)>>

C10_Witness ==
    \E r \in Runs :
        /\ idx[r] > 1
        /\ \E i \in 1..(idx[r] - 1) : ~ConfEntry(i)
        /\ Has(r, "renew")
        /\ Has(r, "update_all_links_to")


\* C11: a successful renew changes no current pointer: the pointers of a
\* lineage change only in the deployment step of the run that handles it.
C11_OnlyDeployMovesPointers ==
    [][\A i \in Files :
          store'[i].current # store[i].current
          => \E r \in DOMAIN pc :
                idx[r] = i /\ pc[r] = "deploy" /\ pc'[r] = "loop"]_vars

C11_Witness ==
    \E r \in Runs :
        /\ Has(r, "save_successor")
        /\ result[r] = store[idx[r]].latest
        /\ pc[r] = "notify"
        /\ store[idx[r]].current = pre[r].current
        /\ \A k \in Kinds : store[idx[r]].current[k] < store[idx[r]].latest

\* C12: the deployment step (should_autodeploy() true, then
\* update_all_links_to(latest_common_version())) creates and deletes no
\* version and changes no version's content; it moves the current pointers
\* only, and not backwards.
C12_DeployKeepsVersions ==
    [][\A r \in DOMAIN pc :
          (pc[r] = "deploy" /\ pc'[r] = "loop")
          => /\ DOMAIN store'[idx[r]].content = DOMAIN store[idx[r]].content
             /\ SameVersions(store'[idx[r]], store[idx[r]])
             /\ \A k \in Kinds :
                   store'[idx[r]].current[k] >= store[idx[r]].current[k]
             /\ \A i \in Files \ {idx[r]} : store'[i] = store[i]]_vars

C12_Witness ==
    \E r \in Runs :
        /\ Has(r, "update_all_links_to")
        /\ pc[r] = "loop"
        /\ store[idx[r]].latest > 1
        /\ store[idx[r]].current # store0[idx[r]].current

\* C15: the base version main passes to renew is the lineage's latest
\* version, also when the deployed version is older; a deployed version
\* older than the latest is never the base.
C15_BaseIsLatest ==
    \A r \in Runs : \A k \in Positions(r, "renew") :
        /\ log[r][k].arg = pre[r].latest
        /\ old_version[r] = pre[r].latest
        /\ \A kind \in Kinds :
              pre[r].current[kind] < pre[r].latest
              => log[r][k].arg # pre[r].current[kind]

C15_Witness ==
    \E r \in Runs :
        /\ Has(r, "renew")
        /\ pc[r] = "renew_params"
        /\ \A kind \in Kinds : pre[r].current[kind] < pre[r].latest

\* C16: when should_autodeploy() is true for a lineage, then after the
\* lineage is handled every current pointer is on the latest version and
\* one deployment notification has been emitted; when it is false no
\* current pointer has changed and none has been emitted.
C16_DeployPointsAllAtLatest ==
    \A r \in Runs : \A d \in Positions(r, "should_autodeploy") :
        pc[r] \in {"loop", "done"}
        => IF log[r][d].arg = 1
           THEN /\ \A k \in Kinds :
                      store[idx[r]].current[k] = store[idx[r]].latest
                /\ Count(r, "notify_deployed") = 1
                /\ Count(r, "update_all_links_to") = 1
           ELSE /\ store[idx[r]].current = store0[idx[r]].current
                /\ Count(r, "notify_deployed") = 0
                /\ Count(r, "update_all_links_to") = 0

C16_Witness ==
    \E r \in Runs : \E d \in Positions(r, "should_autodeploy") :
        /\ log[r][d].arg = 1
        /\ pc[r] = "loop"
        /\ store0[idx[r]].latest > 1
        /\ \A k \in Kinds : store0[idx[r]].current[k] < store0[idx[r]].latest


\* C14: the names renew passes to obtain_certificate are the names of the
\* certificate of the base version it was called with, whatever the
\* lineage's configuration holds, and the successor is saved with that same
\* base version and carries those names.
C14_NamesFromBaseVersion ==
    \A r \in Runs : \A c \in Positions(r, "renew") :
        LET base == log[r][c].arg
        IN  /\ \A k \in Positions(r, "obtain_certificate") :
                  /\ sans[r] = pre[r].content[base]["cert"].sans
                  /\ log[r][k].ver = base
            /\ \A k \in Positions(r, "save_successor") :
                  /\ log[r][k].arg = base
                  /\ log[r][k].ver = base + 1
                  /\ store[idx[r]].content[base + 1]["cert"].sans
                        = pre[r].content[base]["cert"].sans

C14_Witness ==
    \E r \in Runs :
        /\ Has(r, "save_successor")
        /\ pre[r].current["cert"] < pre[r].latest
        /\ sans[r] # pre[r].content[pre[r].current["cert"]]["cert"].sans
        /\ HasParams(r) /\ DOMAIN Params(r) = ParamKeys


\* C18: renew's configuration is renewalparams laid over the defaults, so
\* that for a due lineage whose renewalparams names a registered
\* authenticator and lacks rsa_key_size or dvsni_port (the field it holds,
\* if any, being a number) the attempt goes on to prepare() and to the
\* issuance: it does not end before prepare() has been called.
C18_MissingNumberTakesDefault ==
    \A r \in Runs :
        (/\ InRenew(r)
         /\ NamesAuthenticator(r)
         /\ Params(r)["authenticator"] = Dvsni
         /\ \E key \in {"rsa_key_size", "dvsni_port"} : key \notin DOMAIN Params(r)
         /\ \A key \in {"rsa_key_size", "dvsni_port"} \cap DOMAIN Params(r) :
               ~NotANumber(Params(r)[key]))
        => (pc[r] = "raised" => Has(r, "prepare"))


\* C17: the configuration handed to the lineage's constructor is the
\* layered merge: for every key, the value of the lineage's file if that
\* sets it, else the value of the renewer-wide file if that sets it, else
\* the process-wide default; a key that only the defaults set is present.
C17_LayeredMerge ==
    \A r \in Runs :
        cert[r] # NoCert
        => LET merged == cert[r].configfile
               lineage == cert[r].lineagefile
           IN  \A key \in DOMAIN Defaults \cup DOMAIN renewer_file \cup DOMAIN lineage :
                  /\ key \in DOMAIN merged
                  /\ merged[key] =
                        IF key \in DOMAIN lineage THEN lineage[key]
                        ELSE IF key \in DOMAIN renewer_file THEN renewer_file[key]
                        ELSE Defaults[key]


\* The versions are 1..latest and every current pointer is on one of them.
WellFormed(lineage) ==
    /\ lineage.latest >= 1
    /\ DOMAIN lineage.content = 1..lineage.latest
    /\ \A k \in Kinds : lineage.current[k] \in DOMAIN lineage.content

\* C13: in every state that a sequence of batch runs over a lineage
\* reaches, the lineage's versions are consecutive integers from 1 with no
\* gap and every current pointer is on an existing version; no step lowers
\* the latest version number or removes a version.
C13_VersionsStayWellFormed ==
    [][\A i \in Files :
          /\ WellFormed(store[i])
          /\ WellFormed(store'[i])
          /\ store'[i].latest >= store[i].latest
          /\ DOMAIN store[i].content \subseteq DOMAIN store'[i].content]_vars

C13_Witness ==
    \E i \in Files :
        /\ store[i].latest >= store0[i].latest + 2
        /\ \A k \in Kinds : store[i].current[k] = store[i].latest
        /\ store0[i].current["cert"] < store0[i].latest

\* The runs that have saved a successor for entry i.
Savers(i) == {r \in DOMAIN pc : idx[r] = i /\ Has(r, "save_successor")}

\* C19: nothing keeps two batch runs from renewing the same lineage at the
\* same time. Every run that gets to save a successor has made its own
\* issuance request and adds its own version: two runs that were both called
\* with the same base version leave two successors, and when only one run
\* finds the lineage due exactly one successor is created.
C19_EverySaverAddsAVersion ==
    \A i \in Files :
        /\ store[i].latest = store0[i].latest + Cardinality(Savers(i))
        /\ \A r \in Savers(i) :
              /\ Count(r, "obtain_certificate") = 1
              /\ \A k \in Positions(r, "save_successor") :
                    /\ log[r][k].ver \in DOMAIN store[i].content
                    /\ log[r][k].ver > store0[i].latest
                    /\ \A q \in Savers(i) \ {r} :
                          \A j \in Positions(q, "save_successor") :
                              log[q][j].ver # log[r][k].ver

C19_Witness ==
    \E i \in Files :
        /\ Savers(i) = Overlapping
        /\ \A r \in Overlapping : \A k \in Positions(r, "save_successor") :
              log[r][k].arg = store0[i].latest
        /\ store[i].latest = store0[i].latest + 2
        /\ \A r \in Overlapping : pc[r] = "done"

====
